---- MODULE Spec2Model ----
(***************************************************************************)
(* Hybrid-memory chat service: the /chat request pipeline, the detached    *)
(* save task, the conversation log (SQLite), the temporal-query validator, *)
(* the relevance filter, the semantic retriever and the recency            *)
(* reconciler.                                                             *)
(*                                                                         *)
(* Texts (SQL predicates, model replies) are sequences of fragments; the   *)
(* text is the concatenation of its fragments.  The fragment alphabet is   *)
(* chosen so that none of the substrings the code searches for straddles   *)
(* two fragments, hence a Python "needle in text" is a test on single      *)
(* fragments (Needles).                                                    *)
(***************************************************************************)
EXTENDS Integers, Sequences, FiniteSets, TLC

VARIABLES
    \* ---- temporal agent + execute_sql_query (SpecSql) ----
    sqlPc,        \* "start" | "generated" | "executed"
    llmOut,       \* what the Gemini call produced: [ok |-> BOOLEAN, text |-> reply]
    llmCalls,     \* model.generate_content calls generate_sql_query has made
    sqlQuery,     \* value returned by generate_sql_query
    execArg,      \* the `query` argument execute_sql_query received
    execText,     \* the text handed to cursor.execute (after the '+7 hours' rewrite)
    execResult,   \* "none" | "rows" | "empty" | "raised"
    \* ---- conversation log (SpecLog, Spec) ----
    log,          \* rows of table conversations, in insertion (id) order
    ret,          \* the last TemporalService call and what it returned
    \* ---- relevance filter (SpecFilter) ----
    filt,         \* the last filter_relevant_messages call: arguments and result
    \* ---- semantic retriever (SpecMem) ----
    mem,          \* the last query_similar_documents call: arguments and result
    \* ---- recency reconciler (SpecRecon) ----
    recon,        \* the last important_till_now call: arguments and outcome
    \* ---- POST /chat and the detached save task (Spec) ----
    loop,         \* the coroutine that holds the event loop, or Free
    pc,           \* per request: position in chat()
    userRow,      \* per request: row id save_interaction returned for the prompt
    recent,       \* per request: recent_messages
    respText,     \* per request: response_text
    resp,         \* per request: what the caller received (status, body)
    task,         \* per request: position in save_memory_in_background
    asstRow,      \* per request: row id of the assistant turn
    facts,        \* per request: number of extracted (text, metadata) pairs
    factIdx,      \* per request: pairs the for loop has gone through
    store,        \* documents of the semantic collection
    taskLogged,   \* per request: errors logged inside the task
    taskRaised,   \* per request: an exception left save_memory_in_background
    writeFailed,  \* per request: extracted_index of the pairs add_document raised on
    extractArg    \* per request: the response handed to extract_from_conversation

sqlVars == <<sqlPc, llmOut, llmCalls, sqlQuery, execArg, execText, execResult>>

logVars == <<log, ret>>

filterVars == <<filt>>

memVars == <<mem>>

reconVars == <<recon>>

chatVars == <<loop, pc, userRow, recent, respText, resp>>

taskVars ==
    <<task, asstRow, facts, factIdx, store, taskLogged, taskRaised, writeFailed,
      extractArg>>

vars == <<sqlVars, logVars, filterVars, memVars, reconVars, chatVars, taskVars>>

\* what each specification leaves alone
notSqlVars == <<logVars, filterVars, memVars, reconVars, chatVars, taskVars>>

notLogVars == <<sqlVars, filterVars, memVars, reconVars, chatVars, taskVars>>

notFilterVars == <<sqlVars, logVars, memVars, reconVars, chatVars, taskVars>>

notMemVars == <<sqlVars, logVars, filterVars, reconVars, chatVars, taskVars>>

notReconVars == <<sqlVars, logVars, filterVars, memVars, chatVars, taskVars>>

notChatVars == <<sqlVars, filterVars, memVars, reconVars, ret>>

(***************************************************************************)
(* Sequence helpers                                                        *)
(***************************************************************************)
Prefix(s, n) == SubSeq(s, 1, n)

RemoveAt(s, i) == SubSeq(s, 1, i - 1) \o SubSeq(s, i + 1, Len(s))

(***************************************************************************)
(* temporal_service.py : the conversation log                              *)
(***************************************************************************)
MaxLog == 3      \* rows appended in one behaviour
MaxTs == 3       \* readings of time.time() are 1..MaxTs
MaxCount == 3    \* counts tried besides the one chat passes
RecentCount == 8

Min(a, b) == IF a < b THEN a ELSE b

Reverse(s) == [i \in 1..Len(s) |-> s[Len(s) + 1 - i]]

Roles == {"user", "assistant"}

\* time.time(): wall-clock, so a later reading may equal or precede an earlier one
ClockReadings == 1..MaxTs

\* INSERT INTO conversations: id is AUTOINCREMENT and no row is ever deleted
save_interaction(lg, content, role, timestamp) ==
    Append(lg, [id |-> Len(lg) + 1, role |-> role, content |-> content,
                timestamp |-> timestamp])

\* the orders in which the rows numbered S can come out of ORDER BY timestamp
\* DESC: SQL leaves the order of rows of equal timestamp open
RECURSIVE DescOrders(_, _)
DescOrders(lg, S) ==
    IF S = {} THEN { <<>> }
    ELSE UNION { { <<lg[k]>> \o rest : rest \in DescOrders(lg, S \ {k}) } :
                   k \in { i \in S : \A j \in S : lg[i].timestamp >= lg[j].timestamp } }

\* ORDER BY timestamp DESC
OrderByTimestampDesc(lg) == DescOrders(lg, DOMAIN lg)

\* the same for ORDER BY timestamp ASC
RECURSIVE AscOrders(_, _)
AscOrders(lg, S) ==
    IF S = {} THEN { <<>> }
    ELSE UNION { { <<lg[k]>> \o rest : rest \in AscOrders(lg, S \ {k}) } :
                   k \in { i \in S : \A j \in S : lg[i].timestamp <= lg[j].timestamp } }

\* ORDER BY timestamp ASC
OrderByTimestampAsc(lg) == AscOrders(lg, DOMAIN lg)

\* LIMIT ?
Limit(rows, count) == SubSeq(rows, 1, Min(count, Len(rows)))

KeepMostRecent(messages) == messages

\* messages[1:] if len(messages) > 1 else messages
ExcludeMostRecent(messages) ==
    IF Len(messages) > 1 THEN Tail(messages) ELSE messages

\* the lists get_recent_messages(count) can return
get_recent_messages(lg, count) ==
    { Reverse(ExcludeMostRecent(Limit(rows, count))) :
        rows \in OrderByTimestampDesc(lg) }

\* the lists get_all_messages() can return
get_all_messages(lg) == OrderByTimestampAsc(lg)

Counts == (0..MaxCount) \cup {RecentCount}

NoCall == [op |-> "none", n |-> 0, value |-> <<>>]

LogIdle ==
    /\ log = <<>>
    /\ ret = NoCall

\* TemporalService.save_interaction(content, role)
SaveInteraction ==
    /\ Len(log) < MaxLog
    /\ \E role \in Roles, t \in ClockReadings :
          LET content == IF role = "user" THEN "Xin chao" ELSE "Chao ban" IN
          /\ log' = save_interaction(log, content, role, t)
          /\ ret' = [op |-> "save", n |-> Len(log) + 1, value |-> <<>>]
    /\ UNCHANGED notLogVars

\* TemporalService.get_recent_messages(count)
GetRecentMessages ==
    /\ \E count \in Counts :
          \/ \E messages \in get_recent_messages(log, count) :
                ret' = [op |-> "recent", n |-> count, value |-> messages]
          \/ \* a storage error (sqlite3.Error from connect, execute or
             \* fetchall): the method has no handler, the caller gets the
             \* exception
             ret' = [op |-> "raised", n |-> count, value |-> <<>>]
    /\ UNCHANGED log
    /\ UNCHANGED notLogVars

\* TemporalService.get_all_messages()
GetAllMessages ==
    /\ \E messages \in get_all_messages(log) :
          ret' = [op |-> "all", n |-> 0, value |-> messages]
    /\ UNCHANGED log
    /\ UNCHANGED notLogVars

LogNext == SaveInteraction \/ GetRecentMessages \/ GetAllMessages

(***************************************************************************)
(* temporal_agent_service.py : fragments of SQL text                       *)
(***************************************************************************)
\* the markdown code fence (three backquotes), alone and followed by "sql"
Fence == "<fence>"
FenceSql == "<fence>sql"
NL == "<newline>"

DT7 == "datetime(timestamp, 'unixepoch', '+7 hours') as datetime"
DTU == "datetime(timestamp, 'unixepoch') as datetime"
TodayRange == " WHERE timestamp >= START_OF_DAY AND timestamp <= END_OF_DAY"

\* str.lower() on one fragment
LowerFrag(f) ==
    CASE f = "SELECT " -> "select "
      [] f = " FROM conversations" -> " from conversations"
      [] f = " FROM conversations_archive" -> " from conversations_archive"
      [] f = " FROM users" -> " from users"
      [] f = " JOIN users" -> " join users"
      [] f = TodayRange -> " where timestamp >= start_of_day and timestamp <= end_of_day"
      [] f = " WHERE timestamp >= YESTERDAY" -> " where timestamp >= yesterday"
      [] f = " WHERE content LIKE '%x%'" -> " where content like '%x%'"
      [] f = " ORDER BY timestamp ASC" -> " order by timestamp asc"
      [] f = " ORDER BY timestamp DESC" -> " order by timestamp desc"
      [] f = " LIMIT 10" -> " limit 10"
      [] f = "; DROP TABLE conversations" -> "; drop table conversations"
      [] f = "DELETE " -> "delete "
      [] OTHER -> f

Lower(text) == [i \in DOMAIN text |-> LowerFrag(text[i])]

\* the searched substrings that occur in one (already lower-cased) fragment
Needles(f) ==
    CASE f = DT7 -> {DT7}
      [] f = "role" -> {"role"}
      [] f = "content" -> {"content"}
      [] f = " from conversations" -> {"from conversations"}
      [] f = " from conversations_archive" -> {"from conversations"}
      [] f = "; drop table conversations" -> {}
      [] f = " where timestamp >= start_of_day and timestamp <= end_of_day" -> {"where"}
      [] f = " where timestamp >= yesterday" -> {"where"}
      [] f = " where content like '%x%'" -> {"where", "content"}
      [] OTHER -> {}

\* Python: needle in text
Contains(text, needle) == \E i \in DOMAIN text : needle \in Needles(text[i])

\* Python: text.split("where")[0]; every fragment holding "where" starts with it
\* (after one blank), so the part before the first "where" is whole fragments
BeforeWhere(text) ==
    IF Contains(text, "where")
    THEN LET k == CHOOSE i \in DOMAIN text :
                    /\ "where" \in Needles(text[i])
                    /\ \A j \in 1..(i - 1) : "where" \notin Needles(text[j])
         IN  Prefix(text, k - 1)
    ELSE text

IsSpace(f) == f \in {NL, " "}

RECURSIVE LStrip(_)
LStrip(text) ==
    IF text # <<>> /\ IsSpace(Head(text)) THEN LStrip(Tail(text)) ELSE text

RECURSIVE RStrip(_)
RStrip(text) ==
    IF text # <<>> /\ IsSpace(text[Len(text)])
    THEN RStrip(Prefix(text, Len(text) - 1)) ELSE text

\* Python: text.strip()
Strip(text) == RStrip(LStrip(text))

\* Python: text.replace(<fence>sql, "", 1)
RemoveFirstSqlFence(text) ==
    IF \E i \in DOMAIN text : text[i] = FenceSql
    THEN LET k == CHOOSE i \in DOMAIN text :
                    /\ text[i] = FenceSql
                    /\ \A j \in 1..(i - 1) : text[j] # FenceSql
         IN  RemoveAt(text, k)
    ELSE text

\* Python: text.replace(<fence>, "", 1); the fence is also the head of a FenceSql fragment
RemoveFirstFence(text) ==
    IF \E i \in DOMAIN text : text[i] \in {Fence, FenceSql}
    THEN LET k == CHOOSE i \in DOMAIN text :
                    /\ text[i] \in {Fence, FenceSql}
                    /\ \A j \in 1..(i - 1) : text[j] \notin {Fence, FenceSql}
         IN  IF text[k] = Fence THEN RemoveAt(text, k)
             ELSE [text EXCEPT ![k] = "sql"]
    ELSE text

clean_sql_response(response_text) ==
    LET text == Strip(response_text) IN
    IF text # <<>> /\ Head(text) = FenceSql
    THEN Strip(RemoveFirstFence(RemoveFirstSqlFence(text)))
    ELSE IF text # <<>> /\ Head(text) = Fence
    THEN Strip(RemoveFirstFence(RemoveFirstFence(text)))
    ELSE Strip(text)

validate_sql_query(sql_query, allow_content) ==
    LET sql_lower == Lower(sql_query)
        has_content == Contains(BeforeWhere(sql_lower), "content")
    IN  /\ sql_lower # <<>> /\ Head(sql_lower) = "select "
        /\ Contains(sql_lower, DT7)
        /\ Contains(sql_lower, "role")
        /\ Contains(sql_lower, "from conversations")
        /\ ~(has_content /\ ~allow_content)

default_today_query ==
    <<"SELECT ", DT7, ", ", "role", ", ", "content", " FROM conversations",
      TodayRange, " ORDER BY timestamp ASC">>

\* the outcomes of the Gemini call: a reply text, or an exception
Wrapped(q) ==
    { q,
      <<FenceSql, NL>> \o q \o <<NL, Fence>>,
      <<Fence, NL>> \o q \o <<NL, Fence>>,
      <<NL>> \o q \o <<NL>> }

Verbs == { <<"SELECT ">>, <<"select ">>, <<"DELETE ">> }

Projections ==
    { <<DT7, ", ", "role", ", ", "content">>,
      <<DT7, ", ", "role">>,
      <<DT7, ", ", "content">>,
      <<DTU, ", ", "role", ", ", "content">>,
      <<"content">> }

Froms ==
    { <<" FROM conversations">>, <<" from conversations">>,
      <<" FROM conversations_archive">>, <<" FROM users">>,
      <<" FROM conversations", " JOIN users">>, <<>> }

Wheres ==
    { <<>>, <<TodayRange>>, <<" WHERE timestamp >= YESTERDAY">>,
      <<" WHERE content LIKE '%x%'">> }

Orders ==
    { <<>>, <<" ORDER BY timestamp ASC">>, <<" ORDER BY timestamp DESC">>,
      <<" ORDER BY timestamp DESC", " LIMIT 10">> }

Trailers == { <<>>, <<"; DROP TABLE conversations">> }

Statements ==
    { v \o p \o f \o w \o o \o t :
        v \in Verbs, p \in Projections, f \in Froms, w \in Wheres,
        o \in Orders, t \in Trailers }

Replies == UNION { Wrapped(q) : q \in Statements }

LlmFailure == [ok |-> FALSE, text |-> <<>>]

LlmOutcomes == { [ok |-> TRUE, text |-> r] : r \in Replies } \cup { LlmFailure }

\* generate_sql_query, given what model.generate_content did
generate_sql_query_unvalidated(out) ==
    IF out.ok THEN clean_sql_response(out.text) ELSE default_today_query

generate_sql_query(out) ==
    IF out.ok
    THEN LET sql_query == clean_sql_response(out.text) IN
         IF ~validate_sql_query(sql_query, TRUE)
         THEN default_today_query
         ELSE sql_query
    ELSE default_today_query

(***************************************************************************)
(* temporal_service.py : execute_sql_query                                 *)
(***************************************************************************)
\* query.replace("datetime(timestamp, 'unixepoch')", "datetime(timestamp, 'unixepoch', '+7 hours')")
RewriteUtc(query) == [i \in DOMAIN query |-> IF query[i] = DTU THEN DT7 ELSE query[i]]

\* cursor.execute: rows, or sqlite3.Error (caught, []); a text holding a second
\* statement is refused by the sqlite3 module, with sqlite3.ProgrammingError
\* (a sqlite3.Error, caught) or sqlite3.Warning (not caught) depending on the
\* Python version
ExecOutcomes(text) ==
    IF \E i \in DOMAIN text : text[i] = "; DROP TABLE conversations"
    THEN {"empty", "raised"}
    ELSE {"rows", "empty"}

NoText == <<"-">>

SqlIdle ==
    /\ sqlPc = "start"
    /\ llmOut = LlmFailure
    /\ llmCalls = 0
    /\ sqlQuery = NoText
    /\ execArg = NoText
    /\ execText = NoText
    /\ execResult = "none"

GenerateSqlQueryRetrying ==
    /\ sqlPc = "start"
    /\ \E out \in LlmOutcomes :
          /\ llmOut' = out
          /\ sqlQuery' = generate_sql_query(out)
          /\ llmCalls' = IF sqlQuery' = default_today_query THEN llmCalls + 2
                         ELSE llmCalls + 1
    /\ sqlPc' = "generated"
    /\ UNCHANGED <<execArg, execText, execResult>>
    /\ UNCHANGED notSqlVars

\* chat_router.py:65  sql_query = temporal_agent.generate_sql_query(request.prompt)
GenerateSqlQuery ==
    /\ sqlPc = "start"
    /\ \E out \in LlmOutcomes :
          /\ llmOut' = out
          /\ sqlQuery' = generate_sql_query(out)
    /\ llmCalls' = llmCalls + 1
    /\ sqlPc' = "generated"
    /\ UNCHANGED <<execArg, execText, execResult>>
    /\ UNCHANGED notSqlVars

\* chat_router.py:67  queried_messages = temporal_service.execute_sql_query(sql_query)
ExecuteSqlQuery ==
    /\ sqlPc = "generated"
    /\ execArg' = sqlQuery
    /\ execText' = RewriteUtc(sqlQuery)
    /\ \E res \in ExecOutcomes(RewriteUtc(sqlQuery)) : execResult' = res
    /\ sqlPc' = "executed"
    /\ UNCHANGED <<llmOut, llmCalls, sqlQuery>>
    /\ UNCHANGED notSqlVars

SqlNext == GenerateSqlQuery \/ ExecuteSqlQuery

(***************************************************************************)
(* Properties of the conversation log                                      *)
(***************************************************************************)
LastTurns(m) == SubSeq(log, Len(log) - m + 1, Len(log))

\* C7 as stated: recent(n) returns exactly the last min(n, total) appended
\* turns, oldest first (so user then assistant gives both turns).
C7_RecentIsLastN ==
    ret.op = "recent" => ret.value = LastTurns(Min(ret.n, Len(log)))

StrictlyIncreasingClock ==
    \A i, j \in DOMAIN log : i < j => log[i].timestamp < log[j].timestamp

\* C7 amended: recent(n) fetches the min(n, total) turns of greatest
\* timestamp, drops the one of greatest timestamp when it fetched more than
\* one, and returns the others in non-decreasing timestamp order; it never
\* returns more than n turns.  With strictly increasing timestamps these are
\* the last min(n, total) appended turns without the newest one.
C7_RecentDropsNewest ==
    ret.op = "recent" =>
        LET m == Min(ret.n, Len(log))
            r == ret.value
            InR(k) == \E i \in DOMAIN r : r[i] = log[k]
        IN  /\ Len(r) = (IF m > 1 THEN m - 1 ELSE m)
            /\ Len(r) <= ret.n
            /\ \A i \in DOMAIN r : \E k \in DOMAIN log : r[i] = log[k]
            /\ \A i, j \in DOMAIN r :
                  i < j => r[i].timestamp <= r[j].timestamp /\ r[i].id # r[j].id
            /\ m > 1 =>
                  \E d \in DOMAIN log :
                      /\ ~InR(d)
                      /\ \A i \in DOMAIN r : r[i].timestamp <= log[d].timestamp
                      /\ \A k \in DOMAIN log :
                            (k # d /\ ~InR(k)) =>
                                \A i \in DOMAIN r : log[k].timestamp <= r[i].timestamp
            /\ (StrictlyIncreasingClock /\ m > 1) =>
                  r = SubSeq(log, Len(log) - m + 1, Len(log) - 1)

\* C7 witness: a user turn, then an assistant turn at a later time, then
\* recent(8), which returned the user turn alone.
C7_Witness ==
    /\ ret.op = "recent" /\ ret.n = RecentCount
    /\ Len(log) = 2
    /\ log[1].role = "user" /\ log[1].content = "Xin chao"
    /\ log[2].role = "assistant" /\ log[2].content = "Chao ban"
    /\ log[1].timestamp < log[2].timestamp
    /\ ret.value = <<log[1]>>

\* C20: a storage error that occurs while reading the log in
\* execute_sql_query or get_recent_messages gives the caller an empty
\* result and is never raised to the caller.
C20_ReadErrorNeverRaised ==
    ret.op # "raised"

\* C9: after k appends all() returns exactly the k turns in append (id)
\* order, also with equal or decreasing timestamps.
C9_AllInAppendOrder ==
    ret.op = "all" => ret.value = log

(***************************************************************************)
(* temporal_service.py : filter_relevant_messages                          *)
(***************************************************************************)
MaxMsgs == 3           \* candidate messages in one call
ScoreCutTenths == 2    \* the literal 0.2 the scores are compared with

\* cosine similarities (sklearn), in tenths: none, below 0.2, 0.2, above, 1.0
Scores == {0, 1, 2, 3, 10}

\* a candidate row; timestamp 0 stands for a row without a timestamp key,
\* for which the sort key x.get('timestamp', 0) is 0
Candidates ==
    [timestamp : 0..MaxTs, similarity : Scores]

CandidateLists == UNION { [1..n -> Candidates] : n \in 0..MaxMsgs }

\* list.sort(key=timestamp): stable, so equal keys keep their order
RECURSIVE SortByTimestamp(_)
SortByTimestamp(msgs) ==
    IF msgs = <<>> THEN <<>>
    ELSE LET k == CHOOSE i \in DOMAIN msgs :
                    /\ \A j \in DOMAIN msgs : msgs[i].timestamp <= msgs[j].timestamp
                    /\ \A j \in 1..(i - 1) : msgs[j].timestamp > msgs[i].timestamp
         IN  <<msgs[k]>> \o SortByTimestamp(RemoveAt(msgs, k))

\* msg_copy['relevance_score'] = float(score)
Scored(msgs) ==
    [i \in DOMAIN msgs |->
        [pos |-> i, timestamp |-> msgs[i].timestamp,
         relevance_score |-> msgs[i].similarity]]

ScoreKept(score) == score < ScoreCutTenths

\* tfidf_ok: TfidfVectorizer / cosine_similarity did not raise
filter_relevant_messages(prompt, messages, tfidf_ok) ==
    IF messages = <<>> \/ prompt = "" THEN <<>>
    ELSE IF ~tfidf_ok THEN <<>>
    ELSE SortByTimestamp(
             SelectSeq(Scored(messages), LAMBDA m : ScoreKept(m.relevance_score)))

\* RELEVANT_MESSAGES_THRESHOLD = 0.6 of config.py, in tenths; no code reads it
RELEVANT_MESSAGES_THRESHOLD == 6

\* the floors the comparison of line 270 is evaluated with: its own literal
\* and the configured threshold
Floors == {ScoreCutTenths, RELEVANT_MESSAGES_THRESHOLD}

\* the body of filter_relevant_messages with the literal 0.2 of its
\* comparison replaced by floor
filter_at_floor(prompt, messages, tfidf_ok, floor) ==
    IF messages = <<>> \/ prompt = "" THEN <<>>
    ELSE IF ~tfidf_ok THEN <<>>
    ELSE SortByTimestamp(
             SelectSeq(Scored(messages), LAMBDA m : m.relevance_score < floor))

NoFilterCall ==
    [op |-> "none", prompt |-> "", messages |-> <<>>, tfidf_ok |-> TRUE,
     result |-> <<>>]

FilterIdle == filt = NoFilterCall

\* the arguments of one call, before it runs
FilterCalls ==
    { [NoFilterCall EXCEPT !.prompt = p, !.messages = m, !.tfidf_ok = ok] :
        p \in {"", "query"}, m \in CandidateLists, ok \in BOOLEAN }

\* TemporalService.filter_relevant_messages(prompt, messages)
FilterRelevantMessages ==
    /\ filt.op = "none"
    /\ filt' = [filt EXCEPT
                   !.op = "filter",
                   !.result = filter_relevant_messages(filt.prompt, filt.messages,
                                                       filt.tfidf_ok)]
    /\ UNCHANGED notFilterVars

FilterNext == FilterRelevantMessages

\* C10: every turn the relevance filter returns has a similarity to the
\* query that is at least the floor.
C10_ReturnedMeetFloor ==
    filt.op = "filter" =>
        \A i \in DOMAIN filt.result :
            filt.result[i].relevance_score >= ScoreCutTenths

\* the turns a result holds
Returned(result) == { result[i] : i \in DOMAIN result }

C12_OrderedBySimilarityDesc ==
    filt.op = "filter" =>
        \A i \in DOMAIN filt.result, j \in DOMAIN filt.result :
            i < j =>
                \/ filt.result[i].relevance_score > filt.result[j].relevance_score
                \/ /\ filt.result[i].relevance_score = filt.result[j].relevance_score
                   /\ filt.result[i].timestamp <= filt.result[j].timestamp

(***************************************************************************)
(* Properties of the temporal predicate path                               *)
(***************************************************************************)
\* the reply as the validator saw it
Candidate == clean_sql_response(llmOut.text)

Rejected == sqlPc # "start" /\ llmOut.ok /\ ~validate_sql_query(Candidate, TRUE)

\* C4: whenever the validator rejects the synthesized predicate,
\* generate_sql_query returns the fixed same-day fallback, and the rejected
\* text is not what execute_sql_query receives or runs.
C4_RejectedFallsBack ==
    Rejected =>
        /\ sqlQuery = default_today_query
        /\ sqlQuery # Candidate
        /\ sqlPc = "executed" =>
              /\ execArg = default_today_query
              /\ execArg # Candidate
              /\ execText # Candidate

\* C4 witness: SELECT content FROM conversations was synthesized, rejected,
\* and the fallback was executed in its place.
C4_Witness ==
    /\ sqlPc = "executed"
    /\ llmOut.ok
    /\ llmOut.text = <<"SELECT ", "content", " FROM conversations">>
    /\ Rejected
    /\ execArg = default_today_query

HasLimit(text) == \E i \in DOMAIN text : LowerFrag(text[i]) = " limit 10"

\* C5: a synthesized predicate without a LIMIT fails validation and is
\* replaced by the fallback; it is never executed.
C5_UncappedIsReplaced ==
    (sqlPc # "start" /\ llmOut.ok /\ ~HasLimit(Candidate)) =>
        /\ sqlQuery = default_today_query
        /\ sqlPc = "executed" => execArg = default_today_query

WriteFragments == { "; DROP TABLE conversations", "DELETE " }

OtherRelationFragments ==
    { " FROM conversations_archive", " FROM users", " JOIN users" }

ReadOnlySelection(text) ==
    /\ text # <<>> /\ LowerFrag(Head(text)) = "select "
    /\ \A i \in DOMAIN text : text[i] \notin WriteFragments

OnlyConversations(text) ==
    /\ \E i \in DOMAIN text : LowerFrag(text[i]) = " from conversations"
    /\ \A i \in DOMAIN text : text[i] \notin OtherRelationFragments

\* C6: every predicate that reaches execute_sql_query is a read-only
\* selection on the conversations relation and no other: a candidate holding
\* a write/DDL statement or naming another relation is rejected.
C6_ExecutedIsReadOnlyOnConversations ==
    sqlPc = "executed" =>
        /\ ReadOnlySelection(execArg)
        /\ OnlyConversations(execArg)

\* C21: per request the predicate-synthesis call is made exactly once; its
\* output is either validated and returned, or rejected and replaced by the
\* fallback, and a failure of the call itself also ends in the fallback.
C21_SynthesisCalledOnce ==
    /\ sqlPc = "start" => llmCalls = 0
    /\ sqlPc # "start" =>
          /\ llmCalls = 1
          /\ IF llmOut.ok /\ validate_sql_query(Candidate, TRUE)
             THEN sqlQuery = Candidate
             ELSE sqlQuery = default_today_query

\* C21 witness: the synthesis call raised, the fallback was returned and
\* executed, and the call was not repeated.
C21_Witness ==
    /\ sqlPc = "executed"
    /\ ~llmOut.ok
    /\ llmCalls = 1
    /\ execArg = default_today_query

\* C30: the same-day fallback itself satisfies the validation policy, for
\* both settings of the content toggle, so the predicate handed to
\* execute_sql_query never projects content where that is forbidden.
C30_FallbackValidForBothToggles ==
    (sqlPc = "executed" /\ execArg = default_today_query) =>
        \A allow_content \in BOOLEAN :
            validate_sql_query(execArg, allow_content)

(***************************************************************************)
(* memory_service.py : the semantic retriever                              *)
(*                                                                         *)
(* Cosine distances and similarities are in tenths: similarity = 1 -       *)
(* distance is 10 - distance.                                              *)
(***************************************************************************)
MaxDocs == 3     \* documents in the collection
MaxK == 3        \* n_results of one call

\* threshold: float = 0.3, the default chat() leaves in place
DefaultThreshold == 3

\* n_results=5, what chat() passes
ChatNResults == 5

\* cosine distances of the stored documents to the query text: 0 (same
\* direction) to 2 (opposite)
Distances == {0, 3, 7, 10, 13}

Thresholds == {0, DefaultThreshold, 7}

\* the collection as the query sees it: one distance per document, in
\* insertion order
Collections == UNION { [1..n -> Distances] : n \in 0..MaxDocs }

\* the documents of the collection, nearest first (equal distances in
\* insertion order)
RECURSIVE NearestFirst(_)
NearestFirst(docs) ==
    IF docs = <<>> THEN <<>>
    ELSE LET k == CHOOSE i \in DOMAIN docs :
                    /\ \A j \in DOMAIN docs : docs[i].distance <= docs[j].distance
                    /\ \A j \in 1..(i - 1) : docs[j].distance > docs[i].distance
         IN  <<docs[k]>> \o NearestFirst(RemoveAt(docs, k))

\* self.collection.query(query_texts=[query_text], n_results=n_results,
\* include=[..., "distances"]): the n_results nearest documents
collection_query(collection, n_results) ==
    LET docs == [i \in DOMAIN collection |-> [id |-> i, distance |-> collection[i]]]
        near == NearestFirst(docs)
    IN  Prefix(near, Min(n_results, Len(near)))

\* similarity = 1 - distance
Similarity(distance) == 10 - distance

\* the formatted result of one document
Formatted(doc) ==
    [id |-> doc.id, similarity |-> Similarity(doc.distance), distance |-> doc.distance]

query_similar_documents_unfiltered(collection, n_results, threshold, fails) ==
    IF fails \/ n_results <= 0 THEN [value |-> <<>>, raised |-> FALSE]
    ELSE [value |-> [i \in DOMAIN collection_query(collection, n_results) |->
                        Formatted(collection_query(collection, n_results)[i])],
          raised |-> FALSE]

query_failure_escapes(collection, n_results, threshold, fails) ==
    IF fails \/ n_results <= 0 THEN [value |-> <<>>, raised |-> TRUE]
    ELSE [value |-> SelectSeq(
                        [i \in DOMAIN collection_query(collection, n_results) |->
                            Formatted(collection_query(collection, n_results)[i])],
                        LAMBDA d : d.similarity >= threshold),
          raised |-> FALSE]

\* MemoryService.query_similar_documents(query_text, n_results, threshold).
\* fails: collection.query raised (store or index failure); it also raises
\* for n_results <= 0.  Every exception is caught and [] returned.
query_similar_documents(collection, n_results, threshold, fails) ==
    IF fails \/ n_results <= 0 THEN [value |-> <<>>, raised |-> FALSE]
    ELSE [value |-> SelectSeq(
                        [i \in DOMAIN collection_query(collection, n_results) |->
                            Formatted(collection_query(collection, n_results)[i])],
                        LAMBDA d : d.similarity >= threshold),
          raised |-> FALSE]

NoMemCall ==
    [op |-> "none", collection |-> <<>>, n_results |-> 0,
     threshold |-> DefaultThreshold, fails |-> FALSE,
     result |-> <<>>, raised |-> FALSE]

MemIdle == mem = NoMemCall

\* the arguments of one call, before it runs
MemCalls ==
    { [NoMemCall EXCEPT !.collection = c, !.n_results = k, !.threshold = t,
                        !.fails = f] :
        c \in Collections, k \in (0..MaxK) \cup {ChatNResults},
        t \in Thresholds, f \in BOOLEAN }

\* MemoryService.query_similar_documents(query_text, n_results, threshold=...)
QuerySimilarDocuments ==
    /\ mem.op = "none"
    /\ LET out == query_similar_documents(mem.collection, mem.n_results,
                                          mem.threshold, mem.fails)
       IN  mem' = [mem EXCEPT !.op = "query", !.result = out.value,
                              !.raised = out.raised]
    /\ UNCHANGED notMemVars

MemNext == QuerySimilarDocuments

\* C13: for every store content, query, cap K and floor,
\* query_similar_documents returns at most K documents, and every returned
\* document has similarity = 1 - distance greater than or equal to the floor.
C13_AtMostKAboveFloor ==
    mem.op = "query" =>
        /\ Len(mem.result) <= mem.n_results
        /\ \A i \in DOMAIN mem.result :
              /\ mem.result[i].similarity = 10 - mem.result[i].distance
              /\ mem.result[i].distance = mem.collection[mem.result[i].id]
              /\ mem.result[i].similarity >= mem.threshold

\* C13 witness: the cap cut the candidates (more documents than K), the floor
\* cut one of the K nearest, and a document was returned.
C13_Witness ==
    /\ mem.op = "query"
    /\ ~mem.fails
    /\ Len(mem.collection) > mem.n_results
    /\ mem.result # <<>>
    /\ Len(mem.result) < mem.n_results

\* C14: when the semantic store is empty, or the store/index query fails,
\* query_similar_documents returns an empty sequence and raises nothing.
C14_EmptyOrFailedGivesEmpty ==
    (mem.op = "query" /\ (mem.collection = <<>> \/ mem.fails)) =>
        /\ mem.result = <<>>
        /\ ~mem.raised

\* C14 witness: a query on a non-empty collection failed and returned [].
C14_Witness ==
    /\ mem.op = "query"
    /\ mem.fails
    /\ mem.collection # <<>>
    /\ mem.n_results = ChatNResults
    /\ mem.result = <<>>
    /\ ~mem.raised

(***************************************************************************)
(* memorize_agent_service.py : the recency reconciler                      *)
(***************************************************************************)
MaxMatches == 2  \* retrieved documents handed to one call

\* what metadata holds about a document's creation instant:
\*   "aware"       an ISO datetime with a UTC offset (what add_document and
\*                 the save task write, with GMT7)
\*   "naive"       an ISO datetime without offset, or only a 'timestamp'
\*                 (datetime.fromtimestamp returns a naive datetime)
\*   "missing"     neither key
\*   "unparseable" a 'datetime' that fromisoformat rejects
InstantKinds == {"aware", "naive", "missing", "unparseable"}

\* tzinfo of current_time: chat() passes datetime.now(GMT7) (aware); the
\* default of the parameter is datetime.now() (naive)
NowKinds == {"aware", "naive"}

\* a retrieved document: its instant and, when it parses, its age in days
Matches ==
    { [instant |-> k, days |-> d] :
        k \in InstantKinds, d \in {0, 1} } \
    { [instant |-> k, days |-> 1] : k \in {"missing", "unparseable"} }

MatchLists == UNION { [1..n -> Matches] : n \in 0..MaxMatches }

\* lines 153-161: doc_datetime is set when the stored instant parses
Parses(doc) == doc.instant \in {"aware", "naive"}

\* line 166: current_time - doc_datetime raises TypeError when exactly one of
\* the two carries a tzinfo
SubtractionRaises(doc, now) == Parses(doc) /\ doc.instant # now

\* ages above every int, for float('inf')
Inf == 1000

\* key of the fallback sort: days_old, or float('inf') for None
AgeKey(doc) == IF Parses(doc) THEN doc.days ELSE Inf

FirstMatch(docs) == 1

\* sorted(documents_with_age, key=...)[0]: the first document of least key
Youngest(docs) ==
    CHOOSE i \in DOMAIN docs :
        /\ \A j \in DOMAIN docs : AgeKey(docs[i]) <= AgeKey(docs[j])
        /\ \A j \in 1..(i - 1) : AgeKey(docs[j]) > AgeKey(docs[i])

\* the empty text ""
EmptyString == <<>>

\* doc["text"] of the i-th retrieved document
DocText(i) == <<"document ", ToString(i)>>

\* what self.model.generate_content(prompt) did: response.text (here a text,
\* the same padded with white space, a blank text, the empty text), or an
\* exception
DelegateReplies ==
    { <<"still relevant">>, <<" ", "still relevant", NL>>, <<NL>>, <<>> }

DelegateFailure == [ok |-> FALSE, text |-> <<>>]

DelegateOutcomes ==
    { [ok |-> TRUE, text |-> t] : t \in DelegateReplies } \cup {DelegateFailure}

\* MemorizeAgentService.important_till_now(retrieved_documents, current_time);
\* llm: what self.model.generate_content does if it is called
important_till_now(retrieved_documents, now, llm) ==
    IF retrieved_documents = <<>> THEN [raised |-> "", value |-> EmptyString]
    ELSE IF \E i \in DOMAIN retrieved_documents :
                SubtractionRaises(retrieved_documents[i], now)
         THEN [raised |-> "TypeError", value |-> EmptyString]
    ELSE IF llm.ok THEN [raised |-> "", value |-> Strip(llm.text)]
    ELSE [raised |-> "", value |-> DocText(Youngest(retrieved_documents))]

semantic_context_always(text) ==
    <<[text |-> text, source |-> "filtered_by_importance"]>>

\* chat(), lines 89-97: filtered_important_info, the semantic_context of the
\* generation call and of the response
semantic_context(text) ==
    IF text # EmptyString
    THEN <<[text |-> text, source |-> "filtered_by_importance"]>>
    ELSE <<>>

NoReconCall ==
    [op |-> "none", docs |-> <<>>, now |-> "aware", llm |-> DelegateFailure,
     raised |-> "", value |-> EmptyString, semantic_context |-> <<>>]

ReconIdle == recon = NoReconCall

\* the arguments of one call, before it runs
ReconCalls ==
    { [NoReconCall EXCEPT !.docs = d, !.now = n, !.llm = out] :
        d \in MatchLists, n \in NowKinds, out \in DelegateOutcomes }

\* chat() step 4a: memorize_agent.important_till_now(retrieved_important_info,
\* current_time), then the semantic_context built from its text
ImportantTillNow ==
    /\ recon.op = "none"
    /\ LET out == important_till_now(recon.docs, recon.now, recon.llm)
       IN  recon' = [recon EXCEPT
                        !.op = "done", !.raised = out.raised,
                        !.value = out.value,
                        !.semantic_context =
                            IF out.raised = "" THEN semantic_context(out.value)
                            ELSE <<>>]
    /\ UNCHANGED notReconVars

ReconNext == ImportantTillNow

\* C15: important_till_now returns a string (possibly empty) and never
\* raises, for every list of matches and every stored creation instant
\* (present, missing, unparseable, or of another timezone-awareness than
\* now), whether the delegate call succeeds or fails.
C15_ReconcilerNeverRaises ==
    recon.op = "done" => recon.raised = ""

\* the delegate call was made and returned
DelegateSucceeded ==
    recon.op = "done" /\ recon.docs # <<>> /\ recon.raised = "" /\ recon.llm.ok

\* the delegate call was made and raised
DelegateFailed ==
    recon.op = "done" /\ recon.docs # <<>> /\ recon.raised = "" /\ ~recon.llm.ok

\* C22 as stated: when the reconciliation delegate call succeeds,
\* semantic_context has exactly one entry whose text is the delegate's
\* output; in every request semantic_context has at most one entry.
C22_DelegateOutputIsSoleEntry ==
    /\ Len(recon.semantic_context) <= 1
    /\ DelegateSucceeded =>
          /\ Len(recon.semantic_context) = 1
          /\ recon.semantic_context[1].text = recon.llm.text

\* C22 amended: when the delegate call succeeds, semantic_context has exactly
\* one entry, whose text is the delegate's output stripped of leading and
\* trailing white space, if that stripped text is not empty, and no entry if
\* it is empty; in every request semantic_context has at most one entry.
C22_StrippedOutputIsSoleEntry ==
    /\ Len(recon.semantic_context) <= 1
    /\ DelegateSucceeded =>
          IF Strip(recon.llm.text) = <<>>
          THEN recon.semantic_context = <<>>
          ELSE /\ Len(recon.semantic_context) = 1
               /\ recon.semantic_context[1].text = Strip(recon.llm.text)

\* C22 witness: the delegate returned a text padded with white space and the
\* one entry holds the stripped text.
C22_Witness ==
    /\ DelegateSucceeded
    /\ recon.llm.text = <<" ", "still relevant", NL>>
    /\ Len(recon.semantic_context) = 1
    /\ recon.semantic_context[1].text = <<"still relevant">>

\* C23: when the delegate call fails and at least one match exists,
\* important_till_now returns the raw text of a match whose age in days is
\* minimal among all matches, a match of unknown age counting as older than
\* every match of known age.
C23_FallbackIsYoungest ==
    DelegateFailed =>
        \E i \in DOMAIN recon.docs :
            /\ recon.value = DocText(i)
            /\ \A j \in DOMAIN recon.docs :
                  Parses(recon.docs[j]) =>
                      /\ Parses(recon.docs[i])
                      /\ recon.docs[i].days <= recon.docs[j].days

\* C23 witness: the delegate failed with an older first match and a younger
\* second one; the text of the second was returned.
C23_Witness ==
    /\ DelegateFailed
    /\ Len(recon.docs) = 2
    /\ Parses(recon.docs[1]) /\ recon.docs[1].days = 1
    /\ Parses(recon.docs[2]) /\ recon.docs[2].days = 0
    /\ recon.value = DocText(2)

(***************************************************************************)
(* chat_router.py : POST /chat and save_memory_in_background               *)
(*                                                                         *)
(* chat and save_memory_in_background are coroutines without an await:     *)
(* once started, each runs to its end before the event loop of the single  *)
(* uvicorn process (run.py) runs anything else.  The task a request added   *)
(* with add_task is run by the framework after that request's response was *)
(* sent, and only for a response the endpoint returned (not for the 500    *)
(* raised as HTTPException).                                               *)
(***************************************************************************)
NumReq == 2      \* requests in one behaviour
MaxFacts == 3    \* statements one decomposition returns

Reqs == 1..NumReq

Newest(lg) ==
    IF lg = <<>> THEN 0
    ELSE CHOOSE t \in {lg[i].timestamp : i \in DOMAIN lg} :
             \A i \in DOMAIN lg : lg[i].timestamp <= t

\* time.time() at an insert, relative to the rows present: later than all of
\* them, equal to the newest, or (clock set back) one earlier
Now(lg) == {t \in {Newest(lg) + 1, Newest(lg), Newest(lg) - 1} : t >= 1}

Free == <<"free", 0>>

Prompt(r) == <<"prompt", r>>

Reply(r) == <<"reply", r>>

NoReply == <<"none", 0>>

\* main_llm_service.py:102
Apology == <<"I apologize, but I encountered an error processing your request. Please try again.", 0>>

Detail500 == <<"An error occurred while processing your request.", 0>>

NoResponse == [status |-> "none", body |-> NoReply]

ChatIdle ==
    /\ loop = Free
    /\ pc = [r \in Reqs |-> "idle"]
    /\ userRow = [r \in Reqs |-> 0]
    /\ recent = [r \in Reqs |-> <<>>]
    /\ respText = [r \in Reqs |-> NoReply]
    /\ resp = [r \in Reqs |-> NoResponse]

TaskIdle ==
    /\ task = [r \in Reqs |-> "none"]
    /\ asstRow = [r \in Reqs |-> 0]
    /\ facts = [r \in Reqs |-> 0]
    /\ factIdx = [r \in Reqs |-> 0]
    /\ store = {}
    /\ taskLogged = [r \in Reqs |-> {}]
    /\ taskRaised = [r \in Reqs |-> FALSE]
    /\ writeFailed = [r \in Reqs |-> {}]
    /\ extractArg = [r \in Reqs |-> NoReply]

\* except Exception: raise HTTPException(status_code=500, ...); the locals of
\* chat() end with the call
Fail500(r) ==
    /\ resp' = [resp EXCEPT ![r] = [status |-> "500", body |-> Detail500]]
    /\ pc' = [pc EXCEPT ![r] = "done"]
    /\ loop' = Free
    /\ recent' = [recent EXCEPT ![r] = <<>>]

\* the framework calls chat() for a request
Receive(r) ==
    /\ pc[r] = "idle"
    /\ loop = Free
    /\ loop' = <<"chat", r>>
    /\ pc' = [pc EXCEPT ![r] = "save_user"]
    /\ UNCHANGED <<userRow, recent, respText, resp, log>>
    /\ UNCHANGED <<taskVars, notChatVars>>

SaveUserTurnLenient(r) ==
    /\ pc[r] = "save_user"
    /\ loop = <<"chat", r>>
    /\ \/ \E t \in Now(log) :
            /\ log' = save_interaction(log, Prompt(r), "user", t)
            /\ userRow' = [userRow EXCEPT ![r] = Len(log) + 1]
       \/ UNCHANGED <<log, userRow>>
    /\ pc' = [pc EXCEPT ![r] = "temporal"]
    /\ UNCHANGED <<loop, resp, recent, respText>>
    /\ UNCHANGED <<taskVars, notChatVars>>

\* Step 1: temporal_service.save_interaction(content=request.prompt, role="user")
SaveUserTurn(r) ==
    /\ pc[r] = "save_user"
    /\ loop = <<"chat", r>>
    /\ \/ \E t \in Now(log) :
            /\ log' = save_interaction(log, Prompt(r), "user", t)
            /\ userRow' = [userRow EXCEPT ![r] = Len(log) + 1]
            /\ pc' = [pc EXCEPT ![r] = "temporal"]
            /\ UNCHANGED <<loop, resp, recent>>
       \/ \* the insert raised
          /\ Fail500(r)
          /\ UNCHANGED <<log, userRow>>
    /\ UNCHANGED respText
    /\ UNCHANGED <<taskVars, notChatVars>>

\* Steps 2 and 3: generate_sql_query, execute_sql_query, filter_relevant_messages
TemporalStage(r) ==
    /\ pc[r] = "temporal"
    /\ loop = <<"chat", r>>
    /\ \/ /\ pc' = [pc EXCEPT ![r] = "semantic"]
          /\ UNCHANGED <<loop, resp, recent>>
       \/ \* execute_sql_query raised (sqlite3.connect, or not a sqlite3.Error)
          Fail500(r)
    /\ UNCHANGED <<userRow, respText, log>>
    /\ UNCHANGED <<taskVars, notChatVars>>

\* Steps 4 and 4a: determine_query_needs, query_similar_documents, important_till_now
SemanticStage(r) ==
    /\ pc[r] = "semantic"
    /\ loop = <<"chat", r>>
    \* determine_query_needs and query_similar_documents catch every exception;
    \* the documents of the collection carry the aware datetime the save task
    \* wrote (line 183) and current_time is aware (line 83), so the subtraction
    \* of important_till_now does not raise
    /\ pc' = [pc EXCEPT ![r] = "recent"]
    /\ UNCHANGED <<loop, resp, recent>>
    /\ UNCHANGED <<userRow, respText, log>>
    /\ UNCHANGED <<taskVars, notChatVars>>

\* Step 5: recent_messages = temporal_service.get_recent_messages(count=8)
GetRecent(r) ==
    /\ pc[r] = "recent"
    /\ loop = <<"chat", r>>
    /\ \/ \E messages \in get_recent_messages(log, RecentCount) :
            /\ recent' = [recent EXCEPT ![r] = messages]
            /\ pc' = [pc EXCEPT ![r] = "generate"]
            /\ UNCHANGED <<loop, resp>>
       \/ \* the select raised: get_recent_messages has no handler
          Fail500(r)
    /\ UNCHANGED <<userRow, respText, log>>
    /\ UNCHANGED <<taskVars, notChatVars>>

GenerateFailureEscapes(r) ==
    /\ pc[r] = "generate"
    /\ loop = <<"chat", r>>
    /\ \/ /\ respText' = [respText EXCEPT ![r] = Reply(r)]
          /\ pc' = [pc EXCEPT ![r] = "add_task"]
          /\ UNCHANGED <<loop, recent, resp>>
       \/ /\ Fail500(r)
          /\ UNCHANGED respText
    /\ UNCHANGED <<userRow, log>>
    /\ UNCHANGED <<taskVars, notChatVars>>

\* Step 6: response_text = main_llm.generate_response(...), which returns the
\* model's text or, when the call raised, the apology
Generate(r) ==
    /\ pc[r] = "generate"
    /\ loop = <<"chat", r>>
    /\ \E text \in {Reply(r), Apology} :
          respText' = [respText EXCEPT ![r] = text]
    /\ pc' = [pc EXCEPT ![r] = "add_task"]
    /\ UNCHANGED <<loop, userRow, recent, resp, log>>
    /\ UNCHANGED <<taskVars, notChatVars>>

\* background_tasks.add_task(save_memory_in_background, ...)
AddTask(r) ==
    /\ pc[r] = "add_task"
    /\ loop = <<"chat", r>>
    /\ task' = [task EXCEPT ![r] = "pending"]
    /\ pc' = [pc EXCEPT ![r] = "return"]
    /\ UNCHANGED <<loop, userRow, recent, respText, resp, log>>
    /\ UNCHANGED <<asstRow, facts, factIdx, store, taskLogged, taskRaised, writeFailed>>
    /\ UNCHANGED extractArg
    /\ UNCHANGED notChatVars

ReturnMayFail(r) ==
    /\ pc[r] = "return"
    /\ loop = <<"chat", r>>
    /\ \/ /\ resp' = [resp EXCEPT ![r] = [status |-> "200", body |-> respText[r]]]
          /\ pc' = [pc EXCEPT ![r] = "done"]
          /\ loop' = Free
          /\ recent' = [recent EXCEPT ![r] = <<>>]
       \/ Fail500(r)
    /\ UNCHANGED <<userRow, respText, log>>
    /\ UNCHANGED <<taskVars, notChatVars>>

\* return ChatResponse(response_text=response_text, ...); the locals of chat()
\* end with the call, response_text lives on as the task's argument
Return(r) ==
    /\ pc[r] = "return"
    /\ loop = <<"chat", r>>
    /\ resp' = [resp EXCEPT ![r] = [status |-> "200", body |-> respText[r]]]
    /\ pc' = [pc EXCEPT ![r] = "done"]
    /\ loop' = Free
    /\ recent' = [recent EXCEPT ![r] = <<>>]
    /\ UNCHANGED <<userRow, respText, log>>
    /\ UNCHANGED <<taskVars, notChatVars>>

TaskRunsInline(r) ==
    /\ task[r] = "pending"
    /\ loop = <<"chat", r>>

\* when the framework runs a task added with add_task
TaskMayRun(r) ==
    /\ task[r] = "pending"
    /\ resp[r].status = "200"
    /\ loop = Free

\* the framework calls save_memory_in_background
TaskStart(r) ==
    /\ TaskMayRun(r)
    /\ task' = [task EXCEPT ![r] = "append"]
    /\ loop' = <<"task", r>>
    /\ UNCHANGED <<pc, userRow, recent, respText, resp, log>>
    /\ UNCHANGED <<asstRow, facts, factIdx, store, taskLogged, taskRaised, writeFailed>>
    /\ UNCHANGED extractArg
    /\ UNCHANGED notChatVars

AppendFailureEscapes(r) ==
    /\ taskRaised' = [taskRaised EXCEPT ![r] = TRUE]
    /\ task' = [task EXCEPT ![r] = "done"]
    /\ loop' = Free
    /\ respText' = [respText EXCEPT ![r] = NoReply]
    /\ UNCHANGED taskLogged

AppendFailureSkipped(r) ==
    /\ taskLogged' = [taskLogged EXCEPT ![r] = @ \cup {"background memory saving"}]
    /\ task' = [task EXCEPT ![r] = "extract"]
    /\ UNCHANGED <<loop, respText, taskRaised>>

\* except Exception as e: logger.error("Error in background memory saving")
AppendFailureCaught(r) ==
    /\ taskLogged' = [taskLogged EXCEPT ![r] = @ \cup {"background memory saving"}]
    /\ task' = [task EXCEPT ![r] = "done"]
    /\ loop' = Free
    /\ respText' = [respText EXCEPT ![r] = NoReply]
    /\ UNCHANGED taskRaised

TaskAppendTwice(r) ==
    /\ task[r] = "append"
    /\ loop = <<"task", r>>
    /\ \E t \in Now(log) :
          /\ log' = save_interaction(save_interaction(log, respText[r], "assistant", t),
                                     respText[r], "assistant", t)
          /\ asstRow' = [asstRow EXCEPT ![r] = Len(log) + 1]
          /\ task' = [task EXCEPT ![r] = "extract"]
          /\ UNCHANGED <<loop, taskLogged, taskRaised, respText>>
    /\ UNCHANGED <<pc, userRow, recent, resp>>
    /\ UNCHANGED <<facts, factIdx, store, writeFailed, extractArg>>
    /\ UNCHANGED notChatVars

\* task Step 1: temporal_service.save_interaction(content=response, role="assistant")
TaskAppend(r) ==
    /\ task[r] = "append"
    /\ loop = <<"task", r>>
    /\ \/ \E t \in Now(log) :
            /\ log' = save_interaction(log, respText[r], "assistant", t)
            /\ asstRow' = [asstRow EXCEPT ![r] = Len(log) + 1]
            /\ task' = [task EXCEPT ![r] = "extract"]
            /\ UNCHANGED <<loop, taskLogged, taskRaised, respText>>
       \/ \* the insert raised
          /\ AppendFailureCaught(r)
          /\ UNCHANGED <<log, asstRow>>
    /\ UNCHANGED <<pc, userRow, recent, resp>>
    /\ UNCHANGED <<facts, factIdx, store, writeFailed, extractArg>>
    /\ UNCHANGED notChatVars

TaskExtractIgnoringFailure(r) ==
    /\ task[r] = "extract"
    /\ loop = <<"task", r>>
    /\ extractArg' = [extractArg EXCEPT ![r] = respText[r]]
    /\ \/ /\ \E n \in 0..MaxFacts : facts' = [facts EXCEPT ![r] = n]
          /\ UNCHANGED taskLogged
       \/ /\ \E n \in 1..MaxFacts : facts' = [facts EXCEPT ![r] = n]
          /\ taskLogged' = [taskLogged EXCEPT
                               ![r] = @ \cup {"extracting information from memorize agent"}]
    /\ task' = [task EXCEPT ![r] = "store"]
    /\ UNCHANGED <<pc, userRow, recent, respText, resp, log, loop>>
    /\ UNCHANGED <<asstRow, factIdx, store, taskRaised, writeFailed>>
    /\ UNCHANGED notChatVars

TaskExtractFromReply(r) ==
    /\ task[r] = "extract"
    /\ loop = <<"task", r>>
    /\ extractArg' = [extractArg EXCEPT ![r] = Reply(r)]
    /\ \/ /\ \E n \in 0..MaxFacts : facts' = [facts EXCEPT ![r] = n]
          /\ UNCHANGED taskLogged
       \/ /\ facts' = [facts EXCEPT ![r] = 0]
          /\ taskLogged' = [taskLogged EXCEPT
                               ![r] = @ \cup {"extracting information from memorize agent"}]
    /\ task' = [task EXCEPT ![r] = "store"]
    /\ UNCHANGED <<pc, userRow, recent, respText, resp, log, loop>>
    /\ UNCHANGED <<asstRow, factIdx, store, taskRaised, writeFailed>>
    /\ UNCHANGED notChatVars

\* task Step 2: extracted_info = memorize_agent.extract_from_conversation(prompt, response)
TaskExtract(r) ==
    /\ task[r] = "extract"
    /\ loop = <<"task", r>>
    /\ extractArg' = [extractArg EXCEPT ![r] = respText[r]]
    /\ \/ \* the decomposition call returned: one pair per line kept of its text
          /\ \E n \in 0..MaxFacts : facts' = [facts EXCEPT ![r] = n]
          /\ UNCHANGED taskLogged
       \/ \* the decomposition call raised: generate_response logs it and
          \* returns "", extract_important_information returns [] and
          \* extract_from_conversation no pair
          /\ facts' = [facts EXCEPT ![r] = 0]
          /\ taskLogged' = [taskLogged EXCEPT
                               ![r] = @ \cup {"extracting information from memorize agent"}]
    /\ task' = [task EXCEPT ![r] = "store"]
    /\ UNCHANGED <<pc, userRow, recent, respText, resp, log, loop>>
    /\ UNCHANGED <<asstRow, factIdx, store, taskRaised, writeFailed>>
    /\ UNCHANGED notChatVars

TaskStoreAborting(r) ==
    /\ task[r] = "store"
    /\ loop = <<"task", r>>
    /\ factIdx[r] < facts[r]
    /\ \/ /\ store' = store \cup {[req |-> r, extracted_index |-> factIdx[r]]}
          /\ factIdx' = [factIdx EXCEPT ![r] = @ + 1]
          /\ UNCHANGED <<taskLogged, writeFailed, task, loop, respText, facts>>
          /\ UNCHANGED extractArg
       \/ /\ taskLogged' = [taskLogged EXCEPT ![r] = @ \cup {"background memory saving"}]
          /\ writeFailed' = [writeFailed EXCEPT ![r] = @ \cup {factIdx[r]}]
          /\ task' = [task EXCEPT ![r] = "done"]
          /\ loop' = Free
          /\ respText' = [respText EXCEPT ![r] = NoReply]
          /\ facts' = [facts EXCEPT ![r] = 0]
          /\ factIdx' = [factIdx EXCEPT ![r] = 0]
          /\ extractArg' = [extractArg EXCEPT ![r] = NoReply]
          /\ UNCHANGED store
    /\ UNCHANGED <<pc, userRow, recent, resp, log>>
    /\ UNCHANGED <<asstRow, taskRaised>>
    /\ UNCHANGED notChatVars

\* task Step 3, one turn of the for loop: memory_service.add_document(text, metadata)
TaskStore(r) ==
    /\ task[r] = "store"
    /\ loop = <<"task", r>>
    /\ factIdx[r] < facts[r]
    /\ \/ /\ store' = store \cup {[req |-> r, extracted_index |-> factIdx[r]]}
          /\ UNCHANGED <<taskLogged, writeFailed>>
       \/ \* add_document raised: logged by the handler inside the loop
          /\ taskLogged' = [taskLogged EXCEPT ![r] = @ \cup {"storing extracted information"}]
          /\ writeFailed' = [writeFailed EXCEPT ![r] = @ \cup {factIdx[r]}]
          /\ UNCHANGED store
    /\ factIdx' = [factIdx EXCEPT ![r] = @ + 1]
    /\ UNCHANGED <<pc, userRow, recent, respText, resp, log, loop>>
    /\ UNCHANGED <<task, asstRow, facts, taskRaised, extractArg>>
    /\ UNCHANGED notChatVars

\* the for loop is over and save_memory_in_background returns; its arguments
\* and locals end with the call
TaskEnd(r) ==
    /\ task[r] = "store"
    /\ loop = <<"task", r>>
    /\ factIdx[r] = facts[r]
    /\ task' = [task EXCEPT ![r] = "done"]
    /\ loop' = Free
    /\ respText' = [respText EXCEPT ![r] = NoReply]
    /\ facts' = [facts EXCEPT ![r] = 0]
    /\ factIdx' = [factIdx EXCEPT ![r] = 0]
    /\ extractArg' = [extractArg EXCEPT ![r] = NoReply]
    /\ UNCHANGED <<pc, userRow, recent, resp, log>>
    /\ UNCHANGED <<asstRow, store, taskLogged, taskRaised, writeFailed>>
    /\ UNCHANGED notChatVars

Next ==
    \E r \in Reqs :
        \/ Receive(r)
        \/ SaveUserTurn(r)
        \/ TemporalStage(r)
        \/ SemanticStage(r)
        \/ GetRecent(r)
        \/ Generate(r)
        \/ AddTask(r)
        \/ Return(r)
        \/ TaskStart(r)
        \/ TaskAppend(r)
        \/ TaskExtract(r)
        \/ TaskStore(r)
        \/ TaskEnd(r)

(***************************************************************************)
(* Properties of the request pipeline and the detached task                *)
(***************************************************************************)
\* C1: a failure inside save_memory_in_background is caught and logged in
\* the task: it never changes the status or body of the response already
\* produced for the request and never leaves the task.
C1_TaskFailuresStayInside ==
    [][ \A r \in Reqs :
            /\ resp[r].status # "none" => resp'[r] = resp[r]
            /\ ~taskRaised'[r] ]_vars

\* C1 witness: one task logged a failed assistant-turn append, another a
\* failed store write; both requests keep their 200 response.
C1_Witness ==
    \E r1, r2 \in Reqs :
        /\ task[r1] = "done" /\ task[r2] = "done"
        /\ "background memory saving" \in taskLogged[r1]
        /\ "storing extracted information" \in taskLogged[r2]
        /\ resp[r1].status = "200" /\ resp[r2].status = "200"
        /\ ~taskRaised[r1] /\ ~taskRaised[r2]

\* C2: no step of a request's save task runs before the response of that
\* request has been returned.
C2_TaskAfterResponse ==
    \A r \in Reqs :
        (\/ task[r] \notin {"none", "pending"}
         \/ asstRow[r] # 0
         \/ \E d \in store : d.req = r)
            => resp[r].status = "200"

\* C2 witness: a task has appended the assistant turn and stored a document.
C2_Witness ==
    \E r \in Reqs :
        /\ task[r] = "store"
        /\ asstRow[r] # 0
        /\ \E d \in store : d.req = r
        /\ resp[r].status = "200"

\* C3 as stated: the assistant turn is appended only after the response
\* text has been computed, and the extraction is scheduled only after that
\* append has happened.
C3_ScheduledAfterAppend ==
    \A r \in Reqs :
        /\ asstRow[r] # 0 => resp[r].body # NoReply
        /\ task[r] # "none" => asstRow[r] # 0

\* C3 amended: the assistant turn is appended only after the response text
\* has been computed and the save task has been scheduled and started (the
\* append is the task's first step); decomposition and semantic-store writes
\* happen only after that append.
C3_AppendInsideTask ==
    \A r \in Reqs :
        /\ asstRow[r] # 0 =>
              /\ resp[r].status = "200"
              /\ log[asstRow[r]].role = "assistant"
              /\ log[asstRow[r]].content = resp[r].body
              /\ task[r] \in {"extract", "store", "done"}
        /\ (task[r] \in {"extract", "store"} \/ \E d \in store : d.req = r)
              => asstRow[r] # 0

\* C3 witness: the assistant turn is in the log and a fact of the turn is stored.
C3_Witness ==
    \E r \in Reqs :
        /\ asstRow[r] # 0
        /\ \E d \in store : d.req = r

\* C8: the recent history passed to generation never contains the user turn
\* this same request appended, whatever the prior log (empty included).
C8_RecentExcludesOwnTurn ==
    \A r \in Reqs :
        pc[r] \in {"add_task", "return"} =>
            \A i \in DOMAIN recent[r] : recent[r][i].id # userRow[r]

\* the extracted_index of the documents a request's task has stored
Stored(r) == { d.extracted_index : d \in { e \in store : e.req = r } }

\* C16: in the save task, a failure writing fact i to the semantic store
\* neither prevents the writes of facts i+1..n nor undoes the assistant-turn
\* append or the writes of facts 1..i-1: the loop is left only after every
\* fact was tried, every fact tried is stored unless its own write failed,
\* and nothing stored or appended is removed.
C16_StoreFailureIsolated ==
    [][ \A r \in Reqs :
            /\ (task[r] = "store" /\ task'[r] # "store") => factIdx[r] = facts[r]
            /\ task'[r] = "store" =>
                  /\ Stored(r)' \cup writeFailed'[r] = 0..(factIdx'[r] - 1)
                  /\ Stored(r)' \cap writeFailed'[r] = {}
            /\ store \subseteq store'
            /\ asstRow[r] # 0 =>
                  /\ asstRow'[r] = asstRow[r]
                  /\ Len(log') >= asstRow[r]
                  /\ log'[asstRow[r]] = log[asstRow[r]] ]_vars

\* C16 witness: of 3 facts the write of the second failed; the first and the
\* third are stored and the assistant turn is in the log.
C16_Witness ==
    \E r \in Reqs :
        /\ task[r] = "done"
        /\ Stored(r) = {0, 2}
        /\ writeFailed[r] = {1}
        /\ asstRow[r] # 0
        /\ log[asstRow[r]].role = "assistant"

\* C17: once the user query is in the log, a failure of any later stage is
\* replaced by an empty or fallback value and the request ends with a 200
\* response; only a failure of the query append ends it with a 500.
C17_OnlyAppendFailureGives500 ==
    \A r \in Reqs : resp[r].status = "500" => userRow[r] = 0

\* C18: when the generation call fails, generate_response returns the fixed
\* apology and the request completes with a 200 response whose response_text
\* is that text: from the generation step on, the request raises nothing and
\* returns what generate_response returned.
C18_GenerationFailureGivesApology ==
    [][ \A r \in Reqs :
            /\ (pc[r] = "generate" /\ pc'[r] # "generate") =>
                  /\ pc'[r] = "add_task"
                  /\ respText'[r] \in {Reply(r), Apology}
                  /\ resp'[r] = NoResponse
            /\ (pc[r] = "add_task" /\ pc'[r] # "add_task") =>
                  /\ pc'[r] = "return"
                  /\ respText'[r] = respText[r]
                  /\ resp'[r] = NoResponse
            /\ (pc[r] = "return" /\ pc'[r] # "return") =>
                  resp'[r] = [status |-> "200", body |-> respText[r]] ]_vars

\* C18 witness: a request whose generation call failed was answered 200 with
\* the apology.
C18_Witness ==
    \E r \in Reqs : resp[r] = [status |-> "200", body |-> Apology]

\* C19: when appending the user turn fails, the request is aborted with a
\* 500: no later stage runs, no generation call is made and no save task is
\* scheduled.
C19_AppendFailureAborts ==
    \A r \in Reqs :
        (pc[r] \notin {"idle", "save_user"} /\ userRow[r] = 0) =>
            /\ pc[r] = "done"
            /\ resp[r] = [status |-> "500", body |-> Detail500]
            /\ recent[r] = <<>>
            /\ respText[r] = NoReply
            /\ task[r] = "none"
            /\ asstRow[r] = 0
            /\ Stored(r) = {}
            /\ \A i \in DOMAIN log : log[i].content \notin {Prompt(r), Reply(r)}

\* C19 witness: a request whose user-turn append failed was answered 500
\* while another request went through its stages.
C19_Witness ==
    \E r1, r2 \in Reqs :
        /\ userRow[r1] = 0 /\ resp[r1].status = "500"
        /\ userRow[r2] # 0 /\ resp[r2].status = "200"

\* C24: when the fact-decomposition call fails in the save task, the
\* assistant turn is still recorded in the log and no document is written to
\* the semantic store for that turn.
C24_DecompositionFailureKeepsTurn ==
    \A r \in Reqs :
        "extracting information from memorize agent" \in taskLogged[r] =>
            /\ asstRow[r] # 0
            /\ log[asstRow[r]].role = "assistant"
            /\ log[asstRow[r]].content = resp[r].body
            /\ Stored(r) = {}
            /\ writeFailed[r] = {}

\* C24 witness: a task whose decomposition call failed has ended, with its
\* assistant turn in the log.
C24_Witness ==
    \E r \in Reqs :
        /\ task[r] = "done"
        /\ "extracting information from memorize agent" \in taskLogged[r]
        /\ asstRow[r] # 0
        /\ Stored(r) = {}

\* the rows a request's recent history holds
RecentIds(r) == { recent[r][i].id : i \in DOMAIN recent[r] }

\* C25: under every interleaving of requests and save tasks, the single turn
\* get_recent_messages drops is the calling request's own user turn: the
\* recent history of a request holds the other fetched turns and never its
\* own user turn.
C25_DroppedTurnIsOwn ==
    \A r \in Reqs :
        (pc[r] \in {"generate", "add_task", "return"} /\ Len(log) <= RecentCount) =>
            RecentIds(r) = (DOMAIN log) \ {userRow[r]}

UserTurns == { i \in DOMAIN log : log[i].role = "user" }

AssistantTurns == { i \in DOMAIN log : log[i].role = "assistant" }

UserTurnsOf(r) == { i \in UserTurns : log[i].content = Prompt(r) }

\* C26 as stated: the number of assistant turns in the log is at most the
\* number of user turns, and each request appends exactly one user turn and
\* at most one assistant turn.
C26_ExactlyOneUserTurn ==
    /\ Cardinality(AssistantTurns) <= Cardinality(UserTurns)
    /\ Cardinality(AssistantTurns) = Cardinality({ r \in Reqs : asstRow[r] # 0 })
    /\ \A r \in Reqs :
          pc[r] = "done" => Cardinality(UserTurnsOf(r)) = 1

\* C26 amended: the number of assistant turns in the log is at most the
\* number of user turns, and each request appends at most one user turn
\* (exactly one unless that append fails, which ends the request with a 500)
\* and at most one assistant turn.
C26_AtMostOneUserTurn ==
    /\ Cardinality(AssistantTurns) <= Cardinality(UserTurns)
    /\ Cardinality(AssistantTurns) = Cardinality({ r \in Reqs : asstRow[r] # 0 })
    /\ \A r \in Reqs :
          /\ asstRow[r] # 0 => asstRow[r] \in AssistantTurns
          /\ Cardinality(UserTurnsOf(r)) = (IF userRow[r] # 0 THEN 1 ELSE 0)
          /\ userRow[r] # 0 => UserTurnsOf(r) = {userRow[r]}
          /\ (pc[r] = "done" /\ userRow[r] = 0) => resp[r].status = "500"
          /\ pc[r] \notin {"idle", "save_user", "done"} => userRow[r] # 0

\* C26 witness: two requests were answered 200 and both tasks have ended, one
\* with its assistant turn appended and one whose append failed.
C26_Witness ==
    /\ \A r \in Reqs : task[r] = "done" /\ resp[r].status = "200"
    /\ Cardinality(UserTurns) = 2
    /\ Cardinality(AssistantTurns) = 1

\* C27: for every request answered with 200, if the background append does
\* not fail, the save task appends exactly one assistant turn, whose content
\* equals the response_text returned to the caller (the apology included),
\* and that same text is what is passed to fact decomposition.
C27_AssistantTurnIsResponseText ==
    \A r \in Reqs :
        /\ (\/ task[r] \in {"extract", "store"}
            \/ task[r] = "done" /\ "background memory saving" \notin taskLogged[r])
              =>
              /\ resp[r].status = "200"
              /\ asstRow[r] \in AssistantTurns
              /\ log[asstRow[r]].content = resp[r].body
              /\ \A q \in Reqs : asstRow[q] = asstRow[r] => q = r
        /\ task[r] = "store" =>
              /\ extractArg[r] = resp[r].body
              /\ extractArg[r] = log[asstRow[r]].content
        /\ Cardinality(AssistantTurns) = Cardinality({ q \in Reqs : asstRow[q] # 0 })

\* C27 witness: the generation of a request failed; the apology was returned,
\* appended as the assistant turn and passed to the decomposition.
C27_Witness ==
    \E r \in Reqs :
        /\ task[r] = "store"
        /\ resp[r] = [status |-> "200", body |-> Apology]
        /\ log[asstRow[r]].content = Apology
        /\ extractArg[r] = Apology

\* C28: for a request that ends with a 500 the save task never runs (it is
\* not even scheduled): no assistant turn is appended and no document is
\* written on behalf of that request.
C28_NoTaskAfter500 ==
    \A r \in Reqs :
        resp[r].status = "500" =>
            /\ task[r] = "none"
            /\ asstRow[r] = 0
            /\ Stored(r) = {}
            /\ writeFailed[r] = {}
            /\ extractArg[r] = NoReply
            /\ taskLogged[r] = {}

\* C28 witness: a request ended with a 500 after its user turn was appended,
\* and the save task of another request has stored a document.
C28_Witness ==
    \E r1, r2 \in Reqs :
        /\ resp[r1].status = "500" /\ userRow[r1] # 0
        /\ task[r2] = "done" /\ Stored(r2) # {}

\* C29: in the save task, facts of a turn are written to the semantic store
\* only after the assistant turn was appended successfully; if that append
\* fails, the task ends without calling decomposition and without writing
\* any document.
C29_AppendFailureEndsTask ==
    \A r \in Reqs :
        /\ "background memory saving" \in taskLogged[r] =>
              /\ task[r] = "done"
              /\ asstRow[r] = 0
              /\ extractArg[r] = NoReply
              /\ taskLogged[r] = {"background memory saving"}
              /\ Stored(r) = {}
              /\ writeFailed[r] = {}
        /\ (Stored(r) # {} \/ writeFailed[r] # {} \/ extractArg[r] # NoReply) =>
              asstRow[r] \in AssistantTurns

\* C29 witness: the assistant-turn append of one request failed and its task
\* ended there, while the task of another request wrote a document.
C29_Witness ==
    \E r1, r2 \in Reqs :
        /\ "background memory saving" \in taskLogged[r1]
        /\ task[r1] = "done" /\ asstRow[r1] = 0 /\ Stored(r1) = {}
        /\ asstRow[r2] # 0 /\ Stored(r2) # {}

(***************************************************************************)
(* Specifications                                                          *)
(***************************************************************************)
\* the temporal predicate path on its own
SqlInit ==
    SqlIdle /\ LogIdle /\ FilterIdle /\ MemIdle /\ ReconIdle /\ ChatIdle /\ TaskIdle

SpecSql == SqlInit /\ [][SqlNext]_vars

\* the conversation log on its own
LogInit ==
    LogIdle /\ SqlIdle /\ FilterIdle /\ MemIdle /\ ReconIdle /\ ChatIdle /\ TaskIdle

SpecLog == LogInit /\ [][LogNext]_vars

\* the relevance filter on its own
FilterInit ==
    /\ filt \in FilterCalls
    /\ SqlIdle /\ LogIdle /\ MemIdle /\ ReconIdle /\ ChatIdle /\ TaskIdle

SpecFilter == FilterInit /\ [][FilterNext]_vars

\* the semantic retriever on its own
MemInit ==
    /\ mem \in MemCalls
    /\ SqlIdle /\ LogIdle /\ FilterIdle /\ ReconIdle /\ ChatIdle /\ TaskIdle

SpecMem == MemInit /\ [][MemNext]_vars

\* the recency reconciler on its own
ReconInit ==
    /\ recon \in ReconCalls
    /\ SqlIdle /\ LogIdle /\ FilterIdle /\ MemIdle /\ ChatIdle /\ TaskIdle

SpecRecon == ReconInit /\ [][ReconNext]_vars

\* the service: requests and their detached tasks on the shared log
Init ==
    ChatIdle /\ TaskIdle /\ LogIdle /\ SqlIdle /\ FilterIdle /\ MemIdle /\ ReconIdle

Spec == Init /\ [][Next]_vars

====
